---- MODULE Spec2Model ----
(***************************************************************************)
(* UNO websocket server (main.py): the match registry `games`, the         *)
(* connection directory `player_connections`, the six message handlers     *)
(* and the broadcast loop, under asyncio's cooperative scheduling (a       *)
(* handler runs without interruption between two awaits; it may be         *)
(* suspended while a websocket send is in progress).                       *)
(***************************************************************************)
EXTENDS Integers, Sequences, FiniteSets, TLC

(***************************************************************************)
(* Bounds of the model                                                     *)
(***************************************************************************)
\* shuffle outcomes sampled from random.shuffle (see Shuffled)
NumShuffles == 2
\* game codes generate_game_code may return
NumCodes == 1
\* Spec: players that may create or join
MaxRoster == 17
\* Spec: cards played, and cards drawn, by the messages of one deal
MaxPlays == 1
MaxDraws == 3
\* SpecGame, SpecAsync: players that may create or join
MaxTable == 2
\* SpecGame: cards played by the messages of one deal
GamePlays == 13
\* SpecGame: cards drawn by the messages of one deal between its played
\* cards (before the first played card the players may draw the whole pile)
GameDraws == 0
\* SpecGame: after more than GameDraws draws, cards are played when the
\* draw pile is down to LateDeck cards
LateDeck == 2
\* SpecGame: a late draw that recycles the discard pile follows at most
\* LatePlays played cards
LatePlays == 2
\* SpecAsync: cards played or drawn by the messages of one deal
AsyncMoves == 1
\* SpecOps: players that may create or join
MaxSeats == 3
\* SpecOps: cards played or drawn by the messages of one deal
OpsMoves == 2

(***************************************************************************)
(* Values                                                                  *)
(***************************************************************************)
\* Python None in a string-valued field (winner, chosenColor)
None == "None"
\* Python None where a dict is expected (gameState, games.get(code))
NoDict == [none |-> TRUE]

COLORS == <<"red", "blue", "green", "yellow">>
VALUES == <<"0", "1", "2", "3", "4", "5", "6", "7", "8", "9",
            "skip", "reverse", "draw2">>
\* range(4) of the wild loop
WildCopies == 4
\* range(7) of the deal
HandSize == 7
\* range(2) of the penalty draw and of the draw2 effect
TwoCards == 2

\* the cards appended for one value of one color
ValueCards(color, value) ==
    <<[color |-> color, value |-> value, id |-> <<color, value, 1>>]>>
    \o (IF value # "0"
        THEN <<[color |-> color, value |-> value, id |-> <<color, value, 2>>]>>
        ELSE <<>>)

\* the cards appended by the inner loop for one color
ColorCards(color) ==
    LET F[n \in 0..Len(VALUES)] ==
            IF n = 0 THEN <<>> ELSE F[n - 1] \o ValueCards(color, VALUES[n])
    IN  F[Len(VALUES)]

\* the cards appended by the wild loop, iterations 0..n-1
WildCards(n) ==
    LET F[i \in 0..n] ==
            IF i = 0 THEN <<>>
            ELSE F[i - 1] \o
                 <<[color |-> "wild", value |-> "wild", id |-> <<"wild", "", i - 1>>],
                   [color |-> "wild", value |-> "wild4", id |-> <<"wild4", "", i - 1>>]>>
    IN  F[n]

\* create_deck before the shuffle: the list in creation order
DeckList ==
    LET F[n \in 0..Len(COLORS)] ==
            IF n = 0 THEN <<>> ELSE F[n - 1] \o ColorCards(COLORS[n])
    IN  F[Len(COLORS)] \o WildCards(WildCopies)

\* A card in a hand or a pile is held as its position in DeckList (cards are
\* never mutated after creation); its fields are read from DeckList.
CardRefs == 1..Len(DeckList)
color(c) == DeckList[c].color
value(c) == DeckList[c].value
id(c) == DeckList[c].id

Reverse(s) == [i \in 1..Len(s) |-> s[Len(s) + 1 - i]]
Rotate(s, r) ==
    IF Len(s) = 0 THEN s
    ELSE [i \in 1..Len(s) |-> s[((i - 1 + r) % Len(s)) + 1]]

\* random.shuffle(s): outcome number k of the sampled permutations.
\* 1 leaves the order, 2 reverses it, 3 cuts the list after the first color
\* block, 4 reverses that, 5 cuts after two blocks, ...
ShuffleCut == 25
Shuffled(s, k) ==
    LET r == Rotate(s, ((k - 1) \div 2) * ShuffleCut)
    IN  IF k % 2 = 1 THEN r ELSE Reverse(r)

\* create_deck(): the shuffled list of card references
create_deck(k) == Shuffled([i \in CardRefs |-> i], k)

\* (mutant) the next index is taken clockwise whatever the direction
get_next_player_index_forward(state, players) ==
    (state.currentPlayerIndex + 1) % Len(players)

\* get_next_player_index(state); state["players"] is game["players"]
get_next_player_index(state, players) ==
    (state.currentPlayerIndex + state.direction) % Len(players)

\* list.pop() and the list left behind
Top(s) == s[Len(s)]
Pop(s) == SubSeq(s, 1, Len(s) - 1)

(***************************************************************************)
(* State                                                                   *)
(***************************************************************************)
VARIABLES
    games,               \* code -> game dict, or NoDict when the code is free
    player_connections,  \* the player ids that have a directory entry
    conn,                \* connection -> "open" | "closed"
    task,                \* connection -> the awaits its handler still has to do
    out,                 \* the messages handed to connections by the last step
    loop,                \* the event loop: "ready", or "stuck" in a handler
    moves,               \* code -> cards played and drawn on request since
                         \* the last deal (bounds the exploration)
    last,                \* the message handled by the last step, in the
                         \* specifications that keep it (SpecOps)
    stalled              \* the connections whose client has stopped reading:
                         \* a send to them neither completes nor fails

vars == <<games, player_connections, conn, task, out, loop, moves, last,
          stalled>>

Codes == 1..NumCodes
\* a client is one websocket and uses one player id; its name is that id
Pids == 1..MaxRoster
Name(pid) == ToString(pid)

Idle == [reply |-> <<>>, bcast |-> <<>>, cur |-> <<>>, i |-> 0, dead |-> <<>>,
         sent |-> <<>>]

\* `last` where the handled messages are not kept, and before any message
Unkept == [type |-> "unkept", from |-> 0]
NoMessage == [type |-> "none", from |-> 0]

\* the server after start-up: no match, no connection entry, idle handlers
Boot(l) ==
    /\ games = [c \in Codes |-> NoDict]
    /\ player_connections = {}
    /\ conn = [w \in Pids |-> "open"]
    /\ task = [w \in Pids |-> Idle]
    /\ out = <<>>
    /\ loop = "ready"
    /\ moves = [c \in Codes |-> [plays |-> 0, draws |-> 0]]
    /\ last = l
    /\ stalled = {}

Init == Boot(Unkept)

(***************************************************************************)
(* Handlers: the synchronous part of each handler, from the message to its *)
(* first await, as a function of the registry and the directory.  The      *)
(* result names the new registry and directory, whether the handler raised *)
(* (raise) or never returns (spin), and the awaits that follow: a direct   *)
(* ws.send (reply) and a broadcast (bcast).                                *)
(***************************************************************************)
Result(G, C, reply, bcast) ==
    [games |-> G, conns |-> C, raise |-> FALSE, spin |-> FALSE,
     reply |-> reply, bcast |-> bcast, newGame |-> {}, newState |-> {}]
Return == Result(games, player_connections, <<>>, <<>>)
Raise(G) == [Return EXCEPT !.games = G, !.raise = TRUE]
Spin(G) == [Return EXCEPT !.games = G, !.spin = TRUE]

\* the arguments of a broadcast(code, message) call; the message refers to
\* the game's player list and (game_started, game_update) to its gameState
\* dict.  game and state are NoDict while those objects are the ones in
\* `games`, and hold the object once `games` no longer refers to it.
Message(type, code, winner) ==
    [type |-> type, code |-> code, winner |-> winner,
     game |-> NoDict, state |-> NoDict]

NewPlayer(pid, host) ==
    [id |-> pid, name |-> Name(pid), isHost |-> host, hand |-> <<>>,
     calledUno |-> FALSE]

handle_create_game(pid, game_code) ==
    [newGame |-> {game_code}] @@ Result([games EXCEPT ![game_code] =
                [players |-> <<NewPlayer(pid, TRUE)>>, started |-> FALSE,
                 gameState |-> NoDict]],
           player_connections \cup {pid},
           <<[type |-> "game_created", gameCode |-> game_code]>>,
           <<Message("lobby_update", game_code, None)>>)

\* (mutant) the check of game["started"] is missing
handle_join_game_late(pid, code) ==
    IF code \notin Codes \/ games[code] = NoDict
    THEN Result(games, player_connections,
                <<[type |-> "error", message |-> "Game not found"]>>, <<>>)
    ELSE Result([games EXCEPT ![code].players = Append(@, NewPlayer(pid, FALSE))],
                player_connections \cup {pid},
                <<[type |-> "game_joined", gameCode |-> code]>>,
                <<Message("lobby_update", code, None)>>)

handle_join_game(pid, code) ==
    IF code \notin Codes \/ games[code] = NoDict
    THEN Result(games, player_connections,
                <<[type |-> "error", message |-> "Game not found"]>>, <<>>)
    ELSE IF games[code].started
    THEN Result(games, player_connections,
                <<[type |-> "error", message |-> "Game started"]>>, <<>>)
    ELSE Result([games EXCEPT ![code].players = Append(@, NewPlayer(pid, FALSE))],
                player_connections \cup {pid},
                <<[type |-> "game_joined", gameCode |-> code]>>,
                <<Message("lobby_update", code, None)>>)

\* for p in game["players"]: p["hand"] = [deck.pop() for _ in range(7)],
\* from player j on; raise is the IndexError of a pop from the empty deck
RECURSIVE DealLoop(_, _, _)
DealLoop(players, deck, j) ==
    IF j > Len(players) THEN [players |-> players, deck |-> deck, raise |-> FALSE]
    ELSE IF Len(deck) < HandSize
    THEN [players |-> players, deck |-> deck, raise |-> TRUE]
    ELSE DealLoop([players EXCEPT
                      ![j].hand = [n \in 1..HandSize |-> deck[Len(deck) + 1 - n]],
                      ![j].calledUno = FALSE],
                  SubSeq(deck, 1, Len(deck) - HandSize), j + 1)

\* while start["color"] == "wild": deck.insert(0, start); start = deck.pop()
RECURSIVE SeedLoop(_, _)
SeedLoop(deck, start) ==
    IF color(start) = "wild"
    THEN SeedLoop(Pop(<<start>> \o deck), Top(<<start>> \o deck))
    ELSE [deck |-> deck, start |-> start]

handle_start_game(pid, code, k) ==
    IF code \notin Codes \/ games[code] = NoDict THEN Return
    ELSE LET game == games[code] IN
    IF ~ \E j \in 1..Len(game.players) :
            game.players[j].id = pid /\ game.players[j].isHost
    THEN Return
    ELSE LET dealt == DealLoop(game.players, create_deck(k), 1)
             G1 == [games EXCEPT ![code].players = dealt.players]
         IN
    IF dealt.raise \/ dealt.deck = <<>> THEN Raise(G1)
    ELSE IF \A n \in 1..Len(dealt.deck) : color(dealt.deck[n]) = "wild"
    THEN Spin(G1)
    ELSE LET seed == SeedLoop(Pop(dealt.deck), Top(dealt.deck)) IN
         [newState |-> {code}] @@
         Result([G1 EXCEPT
                    ![code].gameState =
                        [deck |-> seed.deck,
                         discardPile |-> <<seed.start>>,
                         currentColor |-> color(seed.start),
                         currentValue |-> value(seed.start),
                         currentPlayerIndex |-> 0,
                         direction |-> 1,
                         hasDrawn |-> FALSE,
                         winner |-> None],
                    ![code].started = TRUE],
                player_connections, <<>>,
                <<Message("game_started", code, None)>>)

\* for _ in range(n): if state["deck"]: hand.append(state["deck"].pop())
RECURSIVE DrawIfAny(_, _, _)
DrawIfAny(hand, deck, n) ==
    IF n = 0 THEN [hand |-> hand, deck |-> deck]
    ELSE IF deck # <<>>
    THEN DrawIfAny(Append(hand, Top(deck)), Pop(deck), n - 1)
    ELSE DrawIfAny(hand, deck, n - 1)

\* (mutant) the played card stays in the hand
RemoveKeep(hand, card) == hand

\* hand.remove(card)
Remove(hand, card) ==
    LET at == CHOOSE n \in 1..Len(hand) :
                  hand[n] = card /\ \A m \in 1..(n - 1) : hand[m] # card
    IN  SubSeq(hand, 1, at - 1) \o SubSeq(hand, at + 1, Len(hand))

\* the card effect and the turn advance of handle_play_card, lines 175-186
ApplyEffect(players, state, card) ==
    LET s1 == IF value(card) = "reverse"
              THEN [state EXCEPT !.direction = @ * (-1)]
              ELSE IF value(card) = "skip"
              THEN [state EXCEPT !.currentPlayerIndex =
                                     get_next_player_index(state, players)]
              ELSE state
        nxt == get_next_player_index(state, players) + 1
        drawn == DrawIfAny(players[nxt].hand, state.deck, TwoCards)
        isDraw2 == value(card) = "draw2"
        p2 == IF isDraw2 THEN [players EXCEPT ![nxt].hand = drawn.hand]
              ELSE players
        s2 == IF isDraw2 THEN [s1 EXCEPT !.deck = drawn.deck] ELSE s1
    IN  [players |-> p2,
         state |-> [s2 EXCEPT !.currentPlayerIndex =
                                  get_next_player_index(s2, p2),
                              !.hasDrawn = FALSE]]

\* handle_play_card from the search of the card on (lines 155-188), for the
\* player at position `at` of the roster
PlayFrom(code, at, cid, chosenColor) ==
    LET game == games[code]
        state == game.gameState
        player == game.players[at]
    IN
    IF ~ \E n \in 1..Len(player.hand) : id(player.hand[n]) = cid THEN Return
    ELSE LET card == player.hand[CHOOSE n \in 1..Len(player.hand) :
                                     /\ id(player.hand[n]) = cid
                                     /\ \A m \in 1..(n - 1) :
                                            id(player.hand[m]) # cid]
             hand1 == Remove(player.hand, card)
             s1 == [state EXCEPT
                       !.discardPile = Append(@, card),
                       !.currentColor = IF color(card) = "wild"
                                        THEN chosenColor ELSE color(card),
                       !.currentValue = value(card)]
         IN
    IF Len(hand1) = 0
    THEN Result([games EXCEPT ![code].players[at].hand = hand1,
                              ![code].gameState =
                                  [s1 EXCEPT !.winner = player.name]],
                player_connections, <<>>,
                <<Message("game_over", code, player.name)>>)
    ELSE LET pen == IF Len(hand1) = 1 /\ ~ player.calledUno
                    THEN DrawIfAny(hand1, s1.deck, TwoCards)
                    ELSE [hand |-> hand1, deck |-> s1.deck]
             p1 == [game.players EXCEPT ![at].hand = pen.hand,
                                        ![at].calledUno = FALSE]
             eff == ApplyEffect(p1, [s1 EXCEPT !.deck = pen.deck], card)
         IN
         Result([games EXCEPT ![code].players = eff.players,
                              ![code].gameState = eff.state],
                player_connections, <<>>,
                <<Message("game_update", code, None)>>)

\* (mutant) the check that the sender is the player whose turn it is is
\* missing
handle_play_card_any(pid, code, cid, chosenColor) ==
    IF code \notin Codes \/ games[code] = NoDict THEN Return
    ELSE IF games[code].gameState = NoDict THEN Raise(games)
    ELSE PlayFrom(code, games[code].gameState.currentPlayerIndex + 1, cid,
                  chosenColor)

handle_play_card(pid, code, cid, chosenColor) ==
    IF code \notin Codes \/ games[code] = NoDict THEN Return
    ELSE IF games[code].gameState = NoDict THEN Raise(games)
    ELSE LET at == games[code].gameState.currentPlayerIndex + 1 IN
    IF games[code].players[at].id # pid THEN Return
    ELSE PlayFrom(code, at, cid, chosenColor)

\* (mutant) the card kept on the discard pile is its bottom card
RecycleBottom(state, k) ==
    IF state.deck = <<>>
    THEN [state EXCEPT !.deck = Shuffled(Tail(state.discardPile), k),
                       !.discardPile = <<Head(state.discardPile)>>]
    ELSE state

\* if not state["deck"]: the discard pile without its top card becomes the
\* shuffled draw pile (lines 202-206)
Recycle(state, k) ==
    IF state.deck = <<>>
    THEN [state EXCEPT !.deck = Shuffled(Pop(state.discardPile), k),
                       !.discardPile = <<Top(state.discardPile)>>]
    ELSE state

handle_draw(pid, code, k) ==
    IF code \notin Codes \/ games[code] = NoDict THEN Return
    ELSE LET game == games[code]
             state == game.gameState
         IN
    IF state = NoDict THEN Raise(games)
    ELSE LET at == state.currentPlayerIndex + 1
             p == game.players[at]
         IN
    IF p.id # pid THEN Return
    ELSE LET s1 == Recycle(state, k) IN
    IF s1.deck = <<>> THEN Raise([games EXCEPT ![code].gameState = s1])
    ELSE Result([games EXCEPT
                    ![code].players[at].hand = Append(@, Top(s1.deck)),
                    ![code].gameState = [s1 EXCEPT !.deck = Pop(s1.deck),
                                                   !.hasDrawn = TRUE]],
                player_connections, <<>>,
                <<Message("game_update", code, None)>>)

handle_call_uno(pid, code) ==
    IF code \notin Codes \/ games[code] = NoDict THEN Raise(games)
    ELSE IF games[code].gameState = NoDict THEN Raise(games)
    ELSE Result([games EXCEPT ![code].players =
                    [j \in 1..Len(@) |->
                        IF @[j].id = pid /\ Len(@[j].hand) = 2
                        THEN [@[j] EXCEPT !.calledUno = TRUE] ELSE @[j]]],
                player_connections, <<>>,
                <<Message("game_update", code, None)>>)

(***************************************************************************)
(* Awaits: ws.send and the broadcast loop                                  *)
(***************************************************************************)
\* json.dumps(message) at the time of a send: the message's objects as they
\* are now
Render(m, G) ==
    LET game == IF m.game = NoDict THEN G[m.code] ELSE m.game
        state == IF m.state = NoDict THEN game.gameState ELSE m.state
    IN  IF m.type = "lobby_update"
        THEN [type |-> m.type, players |-> game.players]
        ELSE IF m.type = "game_over"
        THEN [type |-> m.type, winner |-> m.winner]
        ELSE [type |-> m.type, players |-> game.players, gameState |-> state]

\* the player list the broadcast loop iterates
Recipients(m, G) == IF m.game = NoDict THEN G[m.code].players ELSE m.game.players

\* The handler on connection w goes on to its next send: the direct reply,
\* else the next player of the broadcast loop that has a directory entry;
\* when the loop is over the dead entries are popped and the handler is done.
Begin(w, t, G, C) ==
    IF t.reply # <<>>
    THEN [task |-> [t EXCEPT !.reply = Tail(@),
                             !.cur = <<[to |-> w, msg |-> Head(t.reply),
                                        direct |-> TRUE]>>],
          conns |-> C]
    ELSE IF t.bcast = <<>> THEN [task |-> Idle, conns |-> C]
    ELSE LET m == Head(t.bcast)
             ps == Recipients(m, G)
             todo == {j \in (t.i + 1)..Len(ps) : ps[j].id \in C}
         IN
    IF todo = {}
    THEN [task |-> Idle, conns |-> C \ {t.dead[n] : n \in 1..Len(t.dead)}]
    ELSE LET j == CHOOSE j \in todo : \A j2 \in todo : j <= j2 IN
         [task |-> [t EXCEPT !.i = j,
                             !.cur = <<[to |-> ps[j].id, msg |-> Render(m, G),
                                        direct |-> FALSE]>>],
          conns |-> C]

\* (mutant) the send of the broadcast loop is not in a try block
CompleteAbort(t) ==
    LET s == Head(t.cur) IN
    IF conn[s.to] = "open"
    THEN [task |-> [t EXCEPT !.cur = <<>>,
                             !.sent = IF s.direct THEN @ ELSE Append(@, s.msg)],
          out |-> <<[to |-> s.to, msg |-> s.msg]>>, raise |-> FALSE]
    ELSE [task |-> Idle, out |-> <<>>, raise |-> TRUE]

\* The send in progress ends: delivered, or it raises because the
\* connection is closed (caught in broadcast, not in a handler).
Complete(t) ==
    LET s == Head(t.cur) IN
    IF conn[s.to] = "open"
    THEN [task |-> [t EXCEPT !.cur = <<>>,
                             !.sent = IF s.direct THEN @ ELSE Append(@, s.msg)],
          out |-> <<[to |-> s.to, msg |-> s.msg]>>, raise |-> FALSE]
    ELSE IF s.direct THEN [task |-> Idle, out |-> <<>>, raise |-> TRUE]
    ELSE [task |-> [t EXCEPT !.cur = <<>>, !.dead = Append(@, s.to)],
          out |-> <<>>, raise |-> FALSE]

\* every remaining send of the handler completes without suspending
RECURSIVE Run(_, _, _, _, _)
Run(w, t, G, C, o) ==
    LET b == Begin(w, t, G, C) IN
    IF b.task.cur = <<>> THEN [conns |-> b.conns, out |-> o, raise |-> FALSE]
    ELSE LET c == Complete(b.task) IN
         IF c.raise THEN [conns |-> b.conns, out |-> o, raise |-> TRUE]
         ELSE Run(w, c.task, G, b.conns, o \o c.out)

\* Suspended broadcasts keep the objects their message was built from when
\* `games` is given a new game (create_game) or a game is given a new
\* gameState dict (start_game).
Keep(t, R) ==
    IF t.bcast = <<>> THEN t
    ELSE LET m == Head(t.bcast)
             m1 == IF m.game = NoDict /\ m.state = NoDict
                      /\ m.code \in R.newState
                      /\ m.type \in {"game_started", "game_update"}
                   THEN [m EXCEPT !.state = games[m.code].gameState] ELSE m
             m2 == IF m1.game = NoDict /\ m1.code \in R.newGame
                   THEN [m1 EXCEPT !.game = games[m1.code]] ELSE m1
         IN  [t EXCEPT !.bcast = <<m2>>]

(***************************************************************************)
(* handler(ws): one message of connection w is handled, up to the point    *)
(* where the handler is suspended in a send (suspends) or, when no send    *)
(* suspends, to its end.                                                   *)
(***************************************************************************)
Handle(w, R, suspends) ==
    /\ loop = "ready"
    /\ conn[w] = "open"
    /\ task[w] = Idle
    /\ games' = R.games
    /\ UNCHANGED stalled
    /\ IF R.spin
       THEN /\ loop' = "stuck"
            /\ out' = <<>>
            /\ UNCHANGED <<player_connections, conn, task>>
       ELSE IF R.raise
       THEN /\ conn' = [conn EXCEPT ![w] = "closed"]
            /\ out' = <<>>
            /\ UNCHANGED <<player_connections, task, loop>>
       ELSE LET t0 == [Idle EXCEPT !.reply = R.reply, !.bcast = R.bcast]
                kept == [x \in Pids |-> Keep(task[x], R)]
            IN
            IF suspends
            THEN LET b == Begin(w, t0, R.games, R.conns) IN
                 /\ task' = [kept EXCEPT ![w] = b.task]
                 /\ player_connections' = b.conns
                 /\ out' = <<>>
                 /\ UNCHANGED <<conn, loop>>
            ELSE LET r == Run(w, t0, R.games, R.conns, <<>>) IN
                 /\ task' = kept
                 /\ player_connections' = r.conns
                 /\ out' = r.out
                 /\ conn' = IF r.raise THEN [conn EXCEPT ![w] = "closed"] ELSE conn
                 /\ UNCHANGED loop

\* the move counters after a message for `code` that is a play, a draw or
\* a start (which deals anew) when it changed the game
Count(code, kind) ==
    moves' = IF code \notin Codes \/ games'[code] = games[code] THEN moves
             ELSE IF kind = "deal"
             THEN [moves EXCEPT ![code] = [plays |-> 0, draws |-> 0]]
             ELSE [moves EXCEPT ![code][kind] = @ + 1]

\* data.get("type") and data["playerId"] of the message handled
Kept(type, w) ==
    last' = IF last = Unkept THEN last ELSE [type |-> type, from |-> w]

CreateGame(w, code, suspends) ==
    /\ Handle(w, handle_create_game(w, code), suspends)
    /\ Count(code, "deal")
    /\ Kept("create_game", w)
JoinGame(w, code, suspends) ==
    /\ Handle(w, handle_join_game(w, code), suspends)
    /\ UNCHANGED moves
    /\ Kept("join_game", w)
StartGame(w, code, k, suspends) ==
    /\ Handle(w, handle_start_game(w, code, k), suspends)
    /\ Count(code, "deal")
    /\ Kept("start_game", w)
PlayCard(w, code, cid, chosenColor, suspends) ==
    /\ Handle(w, handle_play_card(w, code, cid, chosenColor), suspends)
    /\ Count(code, "plays")
    /\ Kept("play_card", w)
DrawCard(w, code, k, suspends) ==
    /\ Handle(w, handle_draw(w, code, k), suspends)
    /\ Count(code, "draws")
    /\ Kept("draw_card", w)
CallUno(w, code, suspends) ==
    /\ Handle(w, handle_call_uno(w, code), suspends)
    /\ UNCHANGED moves
    /\ Kept("call_uno", w)

\* the send a handler is suspended in ends and the handler runs to its next
\* send
SendStep(w) ==
    /\ loop = "ready"
    /\ task[w].cur # <<>>
    /\ Head(task[w].cur).to \notin stalled
    /\ UNCHANGED stalled
    /\ LET c == Complete(task[w]) IN
       IF c.raise
       THEN /\ task' = [task EXCEPT ![w] = Idle]
            /\ conn' = [conn EXCEPT ![w] = "closed"]
            /\ out' = <<>>
            /\ UNCHANGED <<games, player_connections, loop, moves, last>>
       ELSE LET b == Begin(w, c.task, games, player_connections) IN
            /\ task' = [task EXCEPT ![w] = b.task]
            /\ player_connections' = b.conns
            /\ out' = c.out
            /\ UNCHANGED <<games, conn, loop, moves, last>>

\* the client of connection w goes away
Disconnect(w) ==
    /\ conn[w] = "open"
    /\ conn' = [conn EXCEPT ![w] = "closed"]
    /\ out' = <<>>
    /\ UNCHANGED <<games, player_connections, task, loop, moves, last,
                   stalled>>

\* the client of connection w stops reading what the server sends
Stall(w) ==
    /\ conn[w] = "open"
    /\ stalled' = stalled \cup {w}
    /\ out' = <<>>
    /\ UNCHANGED <<games, player_connections, conn, task, loop, moves, last>>

(***************************************************************************)
(* Inputs                                                                  *)
(***************************************************************************)
\* a code no game was created under
NoCode == NumCodes + 1
\* a card id no card has
NoCard == <<"none", "", 0>>
\* chosenColor of a play_card message: a color, or absent
ChosenColors == {"red", None}
Shuffles == 1..NumShuffles

InRoster(w) ==
    \E c \in Codes : games[c] # NoDict
        /\ \E j \in 1..Len(games[c].players) : games[c].players[j].id = w
\* players are interchangeable: the next one to create or join is the
\* least id that is in no roster
NewPid(w) == ~ InRoster(w) /\ \A x \in 1..(w - 1) : InRoster(x)

\* the connections game messages come from: the host, the second player
\* and the player whose turn it is
Actors(code) ==
    IF code \notin Codes \/ games[code] = NoDict THEN {}
    ELSE LET ps == games[code].players IN
         {ps[j].id : j \in {1, 2} \cap (1..Len(ps))}
         \cup (IF games[code].gameState = NoDict THEN {}
               ELSE {ps[games[code].gameState.currentPlayerIndex + 1].id})

CurrentHand(code) ==
    IF games[code] = NoDict \/ games[code].gameState = NoDict THEN <<>>
    ELSE games[code].players[games[code].gameState.currentPlayerIndex + 1].hand

\* the card ids a play_card names: the first card of the hand of the player
\* whose turn it is, the card that player has just drawn, or no card at all
Picks(code) ==
    LET hand == CurrentHand(code) IN
    (IF hand = <<>> THEN {}
     ELSE {id(hand[1])}
          \cup (IF games[code].gameState.hasDrawn THEN {id(hand[Len(hand)])}
                ELSE {}))
    \cup {NoCard}

NoGames == \A c \in Codes : games[c] = NoDict

Deck(code) ==
    IF games[code] = NoDict \/ games[code].gameState = NoDict THEN <<>>
    ELSE games[code].gameState.deck

\* the messages of the clients; S: whether the handler may be suspended in
\* its sends
\* codes are interchangeable: the code drawn is the least one not in use
NewCode(code) ==
    games[code] = NoDict /\ \A x \in 1..(code - 1) : games[x] # NoDict
Create(S) ==
    \E w \in Pids, code \in Codes, s \in S :
        NewPid(w) /\ NewCode(code) /\ NoGames /\ CreateGame(w, code, s)
Join(n, S) ==
    \E w \in 1..n, code \in Codes \cup {NoCode}, s \in S :
        NewPid(w) /\ JoinGame(w, code, s)
Start(K, S) ==
    \E code \in Codes : \E w \in Actors(code), k \in K, s \in S :
        StartGame(w, code, k, s)
Play(code, S) ==
    \E w \in Actors(code), cid \in Picks(code), chosenColor \in ChosenColors,
       s \in S :
        PlayCard(w, code, cid, chosenColor, s)
\* the shuffle of a draw matters only when the draw recycles the discard pile
DrawShuffles(code) == IF Deck(code) = <<>> THEN Shuffles ELSE {1}
Draw(code, S) ==
    \E w \in Actors(code), k \in DrawShuffles(code), s \in S :
        DrawCard(w, code, k, s)
Uno(S) ==
    \E code \in Codes : \E w \in Actors(code), s \in S : CallUno(w, code, s)

(***************************************************************************)
(* Spec: one lobby of up to MaxRoster players and the first moves of its   *)
(* games; no send suspends.                                                *)
(***************************************************************************)
FirstPlay ==
    \E code \in Codes : moves[code].plays < MaxPlays /\ Play(code, {FALSE})
FirstDraw ==
    \E code \in Codes : moves[code].draws < MaxDraws /\ Draw(code, {FALSE})

Next ==
    \/ Create({FALSE})
    \/ Join(MaxRoster, {FALSE})
    \/ Start(Shuffles, {FALSE})
    \/ FirstPlay
    \/ FirstDraw
    \/ Uno({FALSE})

Spec == Init /\ [][Next]_vars

(***************************************************************************)
(* SpecGame: a table of up to MaxTable players and whole games, early      *)
(* (few cards drawn) and late (the draw pile nearly exhausted); no send    *)
(* suspends.                                                               *)
(***************************************************************************)
GamePlay ==
    \E code \in Codes :
        /\ moves[code].plays < GamePlays
        /\ moves[code].draws <= GameDraws \/ Len(Deck(code)) <= LateDeck
        /\ Play(code, {FALSE})
GameDraw ==
    \E code \in Codes :
        /\ \/ moves[code].draws < GameDraws
           \/ moves[code].plays = 0
           \/ Deck(code) = <<>> /\ moves[code].plays <= LatePlays
        /\ Draw(code, {FALSE})

NextGame ==
    \/ Create({FALSE})
    \/ Join(MaxTable, {FALSE})
    \/ Start(Shuffles, {FALSE})
    \/ GamePlay
    \/ GameDraw
    \/ Uno({FALSE})

SpecGame == Init /\ [][NextGame]_vars

(***************************************************************************)
(* SpecAsync: a table of up to MaxTable players and the first moves of its *)
(* games; a handler may be suspended in each of its sends while the        *)
(* handlers of other connections run, and clients may go away; the code a  *)
(* create draws may be one in use.                                         *)
(***************************************************************************)
\* a new client creates a match under any code, the first under the least
AsyncCreate ==
    \E w \in 1..MaxTable, code \in Codes, s \in BOOLEAN :
        /\ NewPid(w)
        /\ NoGames => NewCode(code)
        /\ CreateGame(w, code, s)
AsyncPlay ==
    \E code \in Codes :
        moves[code].plays + moves[code].draws < AsyncMoves /\ Play(code, BOOLEAN)
AsyncDraw ==
    \E code \in Codes :
        moves[code].plays + moves[code].draws < AsyncMoves /\ Draw(code, BOOLEAN)
Send == \E w \in Pids : SendStep(w)
GoAway == \E w \in Pids : InRoster(w) /\ Disconnect(w)

NextAsync ==
    \/ AsyncCreate
    \/ Join(MaxTable, BOOLEAN)
    \/ Start({1}, BOOLEAN)
    \/ AsyncPlay
    \/ AsyncDraw
    \/ Uno(BOOLEAN)
    \/ Send
    \/ GoAway

SpecAsync == Init /\ [][NextAsync]_vars

(***************************************************************************)
(* SpecStall: a table of up to MaxTable players and the first moves of its *)
(* games; every send is a step of its own, one client may stop reading,    *)
(* and the event loop is fair: a send to a client that reads completes.    *)
(***************************************************************************)
StallPlay ==
    \E code \in Codes :
        moves[code].plays + moves[code].draws < AsyncMoves /\ Play(code, {TRUE})
StallDraw ==
    \E code \in Codes :
        moves[code].plays + moves[code].draws < AsyncMoves /\ Draw(code, {TRUE})
Unresponsive == \E w \in Pids : stalled = {} /\ InRoster(w) /\ Stall(w)

NextStall ==
    \/ Create({TRUE})
    \/ Join(MaxTable, {TRUE})
    \/ Start({1}, {TRUE})
    \/ StallPlay
    \/ StallDraw
    \/ Uno({TRUE})
    \/ Send
    \/ Unresponsive

SpecStall ==
    Init /\ [][NextStall]_vars /\ \A w \in 1..MaxTable : WF_vars(SendStep(w))

(***************************************************************************)
(* SpecOps: a table of up to MaxSeats players and the first moves of its    *)
(* games, dealt from one shuffle, with any card of the hand; no send       *)
(* suspends; the message handled by each step is kept.                     *)
(***************************************************************************)
\* the card ids a play_card names: any card of the hand of the player whose
\* turn it is, or no card at all
HandPicks(code) ==
    {id(CurrentHand(code)[n]) : n \in 1..Len(CurrentHand(code))} \cup {NoCard}

\* the player whose turn it is names any card of the hand; another player
\* names the first card of that hand, the card just drawn, or no card
OpsPicks(w, code) ==
    IF /\ CurrentHand(code) # <<>>
       /\ w = games[code].players[
                  games[code].gameState.currentPlayerIndex + 1].id
    THEN HandPicks(code) ELSE Picks(code)

\* chosenColor is read only when the card played is wild
PickColors(cid) == IF cid[1] \in {"wild", "wild4"} THEN ChosenColors ELSE {None}

OpsPlay ==
    \E code \in Codes :
        /\ moves[code].plays + moves[code].draws < OpsMoves
        /\ \E w \in Actors(code) :
              \E cid \in OpsPicks(w, code) :
              \E chosenColor \in PickColors(cid) :
                  PlayCard(w, code, cid, chosenColor, FALSE)
OpsDraw ==
    \E code \in Codes :
        moves[code].plays + moves[code].draws < OpsMoves /\ Draw(code, {FALSE})

NextOps ==
    \/ Create({FALSE})
    \/ Join(MaxSeats, {FALSE})
    \/ Start({1}, {FALSE})
    \/ OpsPlay
    \/ OpsDraw
    \/ Uno({FALSE})

InitOps == Boot(NoMessage)
SpecOps == InitOps /\ [][NextOps]_vars

(***************************************************************************)
(* Properties                                                              *)
(***************************************************************************)
Exists(c) == games[c] # NoDict
Started(c) == Exists(c) /\ games[c].started
Finished(c) == Started(c) /\ games[c].gameState.winner # None
InProgress(c) == Started(c) /\ games[c].gameState.winner = None
\* the phase of the match under code c, as a rank: Lobby 1, InProgress 2,
\* Finished 3 (0: no match)
Phase(G, c) ==
    IF G[c] = NoDict THEN 0
    ELSE IF ~ G[c].started THEN 1
    ELSE IF G[c].gameState.winner = None THEN 2 ELSE 3

IsHost(w, c) ==
    \E j \in 1..Len(games[c].players) :
        games[c].players[j].id = w /\ games[c].players[j].isHost
Current(G, c) == G[c].players[G[c].gameState.currentPlayerIndex + 1]

\* all hands, one after the other
Hands(players) ==
    LET F[n \in 0..Len(players)] ==
            IF n = 0 THEN <<>> ELSE F[n - 1] \o players[n].hand
    IN  F[Len(players)]
\* the hands and the two piles hold each card of the deck exactly once
Conserved(players, state) ==
    LET all == Hands(players) \o state.deck \o state.discardPile IN
    /\ Len(all) = 108
    /\ Len(all) = Len(DeckList)
    /\ \A c \in CardRefs : \E n \in 1..Len(all) : all[n] = c

\* C1: while the event loop is between handlers, the hands, the draw pile
\* and the discard pile of every started match hold the 108 cards of the
\* deck, each exactly once.
C1_CardConservation ==
    loop = "ready" =>
        \A c \in Codes :
            Started(c) => Conserved(games[c].players, games[c].gameState)

\* a started match in which cards were played and drawn and the discard
\* pile was recycled into the draw pile
C1_Witness ==
    /\ loop = "ready"
    /\ \E c \in Codes :
          /\ Started(c)
          /\ moves[c].plays >= 1
          /\ moves[c].draws >= 1
          /\ Len(games[c].gameState.discardPile) = 1
          /\ games[c].gameState.deck # <<>>

\* C2: while a handler has a broadcast for a match to do or under way, no
\* step changes that match (a step that puts another match in its place in
\* the registry aside).
C2_Serialized ==
    [][\A w \in Pids :
          /\ task[w].bcast # <<>> /\ Head(task[w].bcast).game = NoDict
          /\ task'[w].bcast # <<>> /\ Head(task'[w].bcast).game = NoDict
          => games'[Head(task[w].bcast).code] = games[Head(task[w].bcast).code]
      ]_vars

\* the snapshot of a message is a state that whole operations leave behind:
\* a roster sent from a lobby shows no dealt hand, a game state holds every
\* card once
Whole(m) ==
    /\ m.type = "lobby_update" =>
          \A j \in 1..Len(m.players) : m.players[j].hand = <<>>
    /\ m.type \in {"game_started", "game_update"} =>
          Conserved(m.players, m.gameState)

\* C3: every roster or game state handed to a client is the state after
\* whole operations, also after an operation that aborted.
C3_NoTornSnapshot == \A n \in 1..Len(out) : Whole(out[n].msg)

\* C4: no step changes a match of two or more players that has a winner.
C4_FinishedFrozen ==
    [][\A c \in Codes :
          Finished(c) /\ Len(games[c].players) >= 2 => games'[c] = games[c]
      ]_vars

\* C5: a start_game for a match of two or more players that is not in
\* Lobby, or from a player who is not its host, changes no match.
C5_StartRejected ==
    [][\A c \in Codes, w \in Pids, k \in Shuffles :
          /\ Exists(c)
          /\ Len(games[c].players) >= 2
          /\ Started(c) \/ ~ IsHost(w, c)
          /\ StartGame(w, c, k, FALSE)
          => games' = games
      ]_vars

\* C6: the phase of a match of two or more players never moves backwards.
C6_PhaseMonotonic ==
    [][\A c \in Codes :
          Exists(c) /\ Len(games[c].players) >= 2
          => Phase(games', c) >= Phase(games, c)
      ]_vars

\* the state a start has to leave: 7 cards in every hand, one non-wild
\* card on the discard pile that sets color and value, first player,
\* direction +1, in progress
Dealt(g) ==
    /\ g.started
    /\ g.gameState # NoDict
    /\ \A j \in 1..Len(g.players) : Len(g.players[j].hand) = 7
    /\ Len(g.gameState.discardPile) = 1
    /\ color(g.gameState.discardPile[1]) # "wild"
    /\ g.gameState.currentColor = color(g.gameState.discardPile[1])
    /\ g.gameState.currentValue = value(g.gameState.discardPile[1])
    /\ g.gameState.currentPlayerIndex = 0
    /\ g.gameState.direction = 1
    /\ g.gameState.winner = None

\* C7: a start_game of the host on a Lobby match completes and leaves the
\* match dealt, whatever the size of the roster.
C7_StartDeals ==
    [][\A c \in Codes, w \in Pids, k \in Shuffles :
          /\ Exists(c)
          /\ ~ Started(c)
          /\ IsHost(w, c)
          /\ StartGame(w, c, k, FALSE)
          => loop' = "ready" /\ conn'[w] = "open" /\ Dealt(games'[c])
      ]_vars

\* C8: when the player whose turn it is plays a draw2 card that is not the
\* last card of the hand, in a match of two or more players, the next
\* player gains exactly 2 cards and the turn passes to the player after
\* that one.
C8_DrawTwo ==
    [][\A c \in Codes :
          InProgress(c) /\ Len(games[c].players) >= 2 =>
          \A n \in 1..Len(Current(games, c).hand) :
              /\ value(Current(games, c).hand[n]) = "draw2"
              /\ Len(Current(games, c).hand) > 1
              /\ PlayCard(Current(games, c).id, c,
                          id(Current(games, c).hand[n]), None, FALSE)
              => LET np == Len(games[c].players)
                     st == games[c].gameState
                     nxt == (st.currentPlayerIndex + st.direction) % np
                 IN  /\ Len(games'[c].players[nxt + 1].hand)
                           = Len(games[c].players[nxt + 1].hand) + 2
                     /\ games'[c].gameState.currentPlayerIndex
                           = (nxt + st.direction) % np
      ]_vars

\* C9: when the play of the player whose turn it is leaves that player one
\* card, in a match of two or more players, the hand holds 3 cards after
\* the play if the player had not declared and 1 card if the player had,
\* and the declaration flag is false.
C9_LowHandPenalty ==
    [][\A c \in Codes :
          InProgress(c) /\ Len(games[c].players) >= 2 =>
          \A n \in 1..Len(Current(games, c).hand), chosenColor \in ChosenColors :
              /\ Len(Current(games, c).hand) = 2
              /\ PlayCard(Current(games, c).id, c,
                          id(Current(games, c).hand[n]), chosenColor, FALSE)
              => LET at == games[c].gameState.currentPlayerIndex + 1 IN
                 /\ Len(games'[c].players[at].hand)
                       = IF games[c].players[at].calledUno THEN 1 ELSE 3
                 /\ ~ games'[c].players[at].calledUno
      ]_vars

\* C10: no match in progress has an empty draw pile and a discard pile of
\* one card, the state in which a draw fails.
C10_NoDrawFailure ==
    \A c \in Codes :
        InProgress(c) =>
            ~ (games[c].gameState.deck = <<>>
               /\ Len(games[c].gameState.discardPile) <= 1)

\* the cards of a list, as a set
Cards(s) == {s[n] : n \in 1..Len(s)}

\* C11: when the player whose turn it is draws from an empty draw pile in a
\* match in progress, the discard pile is left holding its former top card
\* alone, the cards that were under it are the new draw pile and the card
\* drawn, the hand gains that one card, no card is lost, and the active
\* color and value stay.
C11_Recycle ==
    [][\A c \in Codes :
          InProgress(c) /\ games[c].gameState.deck = <<>> =>
          \A k \in Shuffles :
              DrawCard(Current(games, c).id, c, k, FALSE)
              => LET st == games[c].gameState
                     st2 == games'[c].gameState
                     at == st.currentPlayerIndex + 1
                     hand == games[c].players[at].hand
                     hand2 == games'[c].players[at].hand
                     under == Pop(st.discardPile)
                 IN  /\ st2.discardPile = <<Top(st.discardPile)>>
                     /\ Len(hand2) = Len(hand) + 1
                     /\ SubSeq(hand2, 1, Len(hand)) = hand
                     /\ Top(hand2) \in Cards(under)
                     /\ Len(st2.deck) = Len(under) - 1
                     /\ Cards(st2.deck) \cup {Top(hand2)} = Cards(under)
                     /\ Conserved(games'[c].players, st2)
                     /\ st2.currentColor = st.currentColor
                     /\ st2.currentValue = st.currentValue
      ]_vars

\* C13: a create_game changes no match that is in the registry.
C13_UniqueCodes ==
    [][\A w \in Pids, code \in Codes, s \in BOOLEAN :
          CreateGame(w, code, s)
          => \A c \in Codes : Exists(c) => games'[c] = games[c]
      ]_vars

\* the player ids of a roster, in turn order
Ids(players) == [j \in 1..Len(players) |-> players[j].id]

\* C14: a join_game for a started match or for an unknown code changes no
\* match and no connection entry and hands out one message, an error to
\* the sender; no step changes the player ids of the roster of a match
\* that is started, or their order.
C14_JoinInLobbyOnly ==
    [][/\ \A w \in 1..MaxSeats, code \in Codes \cup {NoCode} :
             /\ last'.type \in {Unkept.type, "join_game"}
             /\ last'.from \in {Unkept.from, w}
             /\ code = NoCode \/ ~ Exists(code) \/ Started(code)
             /\ JoinGame(w, code, FALSE)
             => /\ games' = games
                /\ player_connections' = player_connections
                /\ Len(out') = 1
                /\ out'[1].to = w
                /\ out'[1].msg.type = "error"
       /\ \A c \in Codes :
             Started(c) /\ games'[c] # NoDict /\ games'[c].started
             => Ids(games'[c].players) = Ids(games[c].players)
      ]_vars

\* a client that is not in the roster of the started match has just been
\* sent the error "Game started" for its join_game
C14_Witness ==
    /\ \E c \in Codes : Started(c) /\ Len(games[c].players) >= 2
    /\ last.type = "join_game"
    /\ ~ InRoster(last.from)
    /\ Len(out) = 1
    /\ out[1].to = last.from
    /\ out[1].msg.type = "error"
    /\ out[1].msg.message = "Game started"

\* the roster members hold a connection entry and an open connection
Connected(c) ==
    \A j \in 1..Len(games[c].players) :
        /\ games[c].players[j].id \in player_connections
        /\ conn[games[c].players[j].id] = "open"

\* C12: a play_card on a started match from a player whose turn it is not,
\* or naming a card that is not in the hand of the player whose turn it is,
\* changes no match and no connection entry and hands no message to anyone.
C12_RejectedPlay ==
    [][\/ /\ games' = games
          /\ player_connections' = player_connections
          /\ conn' = conn
          /\ out' = <<>>
       \/ \A c \in Codes :
             Started(c) /\ last'.type \in {Unkept.type, "play_card"} =>
             \A w \in Actors(c) :
                 last'.from \in {Unkept.from, w} =>
                 \A cid \in HandPicks(c) \cup Picks(c),
                    chosenColor \in ChosenColors :
                     ~ /\ \/ w # Current(games, c).id
                          \/ \A n \in 1..Len(Current(games, c).hand) :
                                 id(Current(games, c).hand[n]) # cid
                       /\ PlayCard(w, c, cid, chosenColor, FALSE)
      ]_vars

\* the last message was a play_card from a player of a started match of
\* connected players whose turn it is not, and no message was handed out
C12_Witness ==
    \E c \in Codes :
        /\ Started(c)
        /\ Len(games[c].players) >= 2
        /\ Connected(c)
        /\ last.type = "play_card"
        /\ InRoster(last.from)
        /\ last.from # Current(games, c).id
        /\ out = <<>>

\* C15: a call_uno on a started match of two or more players sets the flag of the sender when the
\* sender holds exactly two cards and changes nothing else; when the sender
\* does not hold two cards it changes no match and hands no message to
\* anyone.
C15_DeclareOnlyAtTwo ==
    [][\A c \in Codes :
          Started(c) /\ Len(games[c].players) >= 2 =>
          \A j \in 1..Len(games[c].players) :
              CallUno(games[c].players[j].id, c, FALSE)
              => IF Len(games[c].players[j].hand) = 2
                 THEN games' = [games EXCEPT ![c].players[j].calledUno = TRUE]
                 ELSE games' = games /\ out' = <<>>
      ]_vars

\* the handler result R has a broadcast: the registry is the one R made,
\* every roster member that had a connection entry and an open connection
\* was handed the message and keeps its entry, and every roster member
\* whose send failed has lost its entry
Delivered(R) ==
    R.bcast # <<>> /\ ~ R.raise /\ ~ R.spin =>
    LET m == Head(R.bcast)
        ps == R.games[m.code].players
    IN  /\ games' = R.games
        /\ \A j \in 1..Len(ps) :
              ps[j].id \in R.conns =>
                  IF conn[ps[j].id] = "open"
                  THEN /\ \E n \in 1..Len(out') :
                             out'[n] = [to |-> ps[j].id,
                                        msg |-> Render(m, R.games)]
                       /\ ps[j].id \in player_connections'
                  ELSE ps[j].id \notin player_connections'

\* the card ids a play_card can have named in a step: a play that broadcasts
\* has put its card on the discard pile, so when the pile has grown the card
\* is its new top card
PlayedIds(c) ==
    IF /\ Started(c)
       /\ games'[c] # NoDict
       /\ games'[c].gameState # NoDict
       /\ Len(games'[c].gameState.discardPile) =
              Len(games[c].gameState.discardPile) + 1
    THEN {id(Top(games'[c].gameState.discardPile))}
    ELSE HandPicks(c)

\* C16: in every operation that broadcasts, a roster member whose send
\* fails loses its connection entry, every other roster member with an
\* entry and an open connection is handed the message, and the operation's
\* change of the match stays.
C16_BestEffort ==
    [][\A c \in Codes, w \in 1..MaxSeats :
          last'.from \in {Unkept.from, w} =>
          /\ last'.type \in {Unkept.type, "create_game"}
                => (CreateGame(w, c, FALSE)
                     => Delivered(handle_create_game(w, c)))
          /\ last'.type \in {Unkept.type, "join_game"}
                => (JoinGame(w, c, FALSE) => Delivered(handle_join_game(w, c)))
          /\ last'.type \in {Unkept.type, "start_game"}
                => \A k \in Shuffles :
                       StartGame(w, c, k, FALSE)
                       => Delivered(handle_start_game(w, c, k))
          /\ last'.type \in {Unkept.type, "play_card"}
                => \A cid \in PlayedIds(c) :
                   \A chosenColor \in PickColors(cid) :
                       PlayCard(w, c, cid, chosenColor, FALSE)
                       => Delivered(handle_play_card(w, c, cid, chosenColor))
          /\ last'.type \in {Unkept.type, "draw_card"}
                => \A k \in Shuffles :
                       DrawCard(w, c, k, FALSE)
                       => Delivered(handle_draw(w, c, k))
          /\ last'.type \in {Unkept.type, "call_uno"}
                => (CallUno(w, c, FALSE) => Delivered(handle_call_uno(w, c)))
      ]_vars

\* a broadcast has just handed its message to a roster member while
\* another roster member, whose connection is closed, has no connection
\* entry any more
C16_Witness ==
    \E c \in Codes :
        /\ Exists(c)
        /\ last.type \in {"join_game", "start_game", "play_card", "draw_card",
                          "call_uno"}
        /\ conn[last.from] = "open"
        /\ \E j, j2 \in 1..Len(games[c].players) :
              /\ conn[games[c].players[j].id] = "closed"
              /\ games[c].players[j].id \notin player_connections
              /\ \E n \in 1..Len(out) :
                    /\ out[n].to = games[c].players[j2].id
                    /\ out[n].msg.type \in {"lobby_update", "game_started",
                                            "game_update", "game_over"}

\* it is the turn of player w, whose client reads and is connected
Turn(w) ==
    /\ w \notin stalled
    /\ conn[w] = "open"
    /\ \E c \in Codes : InProgress(c) /\ Current(games, c).id = w

\* C17: whenever it is the turn of a player whose client reads, the handler
\* of that player's connection eventually is at its message loop, where it
\* takes the player's next message and applies it (or that client has
\* stopped reading too).
C17_TurnsGoOn ==
    \A w \in 1..MaxTable :
        [](Turn(w) => <>(task[w] = Idle \/ w \in stalled))

\* C18: in a started match the discard pile is not empty, the active value
\* is the value of its top card, and the active color is the color of its
\* top card, or, when that card is wild, a color a player chose.
C18_TopIsActive ==
    \A c \in Codes :
        Started(c) =>
            LET st == games[c].gameState IN
            /\ st.discardPile # <<>>
            /\ st.currentValue = value(Top(st.discardPile))
            /\ IF color(Top(st.discardPile)) = "wild"
               THEN st.currentColor \in ChosenColors
               ELSE st.currentColor = color(Top(st.discardPile))

\* a started match after cards were played and a draw recycled the discard
\* pile, which holds a wild card and the color chosen for it
C18_Witness ==
    \E c \in Codes :
        /\ Started(c)
        /\ moves[c].plays >= 1
        /\ games[c].gameState.hasDrawn
        /\ Len(games[c].gameState.discardPile) = 1
        /\ color(Top(games[c].gameState.discardPile)) = "wild"
        /\ games[c].gameState.currentColor = "red"

C20_LocalError ==
    [][\A w \in 1..MaxSeats, c \in Codes \cup {NoCode} :
          (/\ \/ /\ c \in Codes
                 /\ Exists(c)
                 /\ ~ Started(c)
                 /\ \/ \E chosenColor \in ChosenColors :
                           PlayCard(w, c, NoCard, chosenColor, FALSE)
                    \/ DrawCard(w, c, 1, FALSE)
                    \/ CallUno(w, c, FALSE)
              \/ /\ c \in Codes => ~ Exists(c)
                 /\ CallUno(w, c, FALSE))
          => /\ games' = games
             /\ out' = <<>>
             /\ conn'[w] = "open"]_vars

TypeOK ==
    /\ player_connections \subseteq Pids
    /\ loop \in {"ready", "stuck"}

====
